---- MODULE Spec2Model ----
(***************************************************************************)
(* markdown-it-table-of-contents (src/index.js).                           *)
(*                                                                         *)
(* The plugin gathers the headline tokens of a document                    *)
(* (findHeadlineElements), turns the flat list into a nested tree          *)
(* (flatHeadlineItemsToNestedTree), renders the tree as nested list markup *)
(* (tocItemToHtml), and hooks into the host through an inline rule (toc),  *)
(* a core rule (grab_state) and three renderer rules.                      *)
(*                                                                         *)
(* JavaScript strings are TLA+ strings; null and undefined are the two     *)
(* reserved strings Null and Undefined, which no text of the model equals. *)
(* A tree is an arena: a sequence of nodes addressed by index, node 1 the  *)
(* root, parent 0 standing for a null parent.                              *)
(***************************************************************************)
EXTENDS Integers, Sequences, FiniteSets, TLC

VARIABLES
    pc,               \* position of the operation being modelled
    options,          \* the plugin options in force (Object.assign({}, defaults, o))
    headlineItems,    \* flatHeadlineItemsToNestedTree: its argument
    tree,             \* flatHeadlineItemsToNestedTree: toc, currentRootNode, prevListItem
    idx,              \* index of the next element a forEach visits
    html,             \* the markup tocItemToHtml returned
    tokens,           \* findHeadlineElements: the token stream it walks
    currentHeading,   \* findHeadlineElements: <<>> for null, else <<the open headline>>
    headings,         \* findHeadlineElements: the headlines found so far
    src,              \* toc: state.src, the inline content being scanned
    pos,              \* toc: state.pos, zero-based
    pushed,           \* toc: the tokens state.push created, each with the pos it was pushed at
    ret,              \* toc: the value the last call returned
    gstate,           \* the plugin instance's gstate: 0 for undefined, else the document whose state it holds
    parsed,           \* per document: the host has parsed it (its core rules have run)
    rendered          \* per document: what toc_body did for its body placeholder

treeVars == <<headlineItems, tree, html>>
extractVars == <<tokens, currentHeading, headings>>
scanVars == <<src, pos, pushed, ret>>
engineVars == <<gstate, parsed, rendered>>
vars == <<pc, options, idx, treeVars, extractVars, scanVars, engineVars>>

----------------------------------------------------------------------------
(* Bounds of the model *)

MaxLevel == 3
MaxItems == 4
MaxBlocks == 2
MaxLines == 2
NumDocs == 2

----------------------------------------------------------------------------
(* JavaScript values *)

Null == "<null>"
Undefined == "<undefined>"
False == "<false>"
True == "<true>"

\* Math.min() of no arguments; larger than every headline level.
Infinity == 1000

\* ToBoolean of the values the model uses.
Truthy(v) == v \notin {Null, Undefined, False, ""}

\* String(v) as a template literal `${v}` applies it.
ToStr(v) == IF v = Null THEN "null" ELSE IF v = Undefined THEN "undefined" ELSE v

\* a - 1 on numbers, Infinity - 1 being Infinity.
Minus1(a) == IF a = Infinity THEN Infinity ELSE a - 1

Min2(a, b) == IF a <= b THEN a ELSE b

----------------------------------------------------------------------------
(* The default slugify: trim, lower case, whitespace runs to "-", encodeURIComponent *)

IsSpace(c) == c \in {" ", "\t", "\n"}

RECURSIVE TrimLeft(_)
TrimLeft(s) == IF s # "" /\ IsSpace(SubSeq(s, 1, 1)) THEN TrimLeft(SubSeq(s, 2, Len(s))) ELSE s
RECURSIVE TrimRight(_)
TrimRight(s) ==
    IF s # "" /\ IsSpace(SubSeq(s, Len(s), Len(s))) THEN TrimRight(SubSeq(s, 1, Len(s) - 1)) ELSE s
Trim(s) == TrimRight(TrimLeft(s))

UpperCase == "ABCDEFGHIJKLMNOPQRSTUVWXYZ"
LowerCase == "abcdefghijklmnopqrstuvwxyz"
LowerChar(c) ==
    IF \E i \in 1..Len(UpperCase) : SubSeq(UpperCase, i, i) = c
    THEN LET i == CHOOSE i \in 1..Len(UpperCase) : SubSeq(UpperCase, i, i) = c
         IN  SubSeq(LowerCase, i, i)
    ELSE c

\* encodeURIComponent of one character, for the characters the model's texts
\* use: letters, digits and - _ . ! ~ * ' ( ) stay, the others are escaped.
EncodeChar(c) ==
    CASE c = "&" -> "%26"
      [] c = "?" -> "%3F"
      [] c = "/" -> "%2F"
      [] c = "#" -> "%23"
      [] OTHER -> c

\* One left-to-right pass over the trimmed text: lower case each character,
\* put one "-" for each run of whitespace, escape the rest.
RECURSIVE SlugFrom(_, _)
SlugFrom(s, inRun) ==
    IF s = "" THEN ""
    ELSE LET c == SubSeq(s, 1, 1)
             rest == SubSeq(s, 2, Len(s))
         IN  IF IsSpace(c)
             THEN (IF inRun THEN "" ELSE "-") \o SlugFrom(rest, TRUE)
             ELSE EncodeChar(LowerChar(c)) \o SlugFrom(rest, FALSE)

slugify(s) == SlugFrom(Trim(ToStr(s)), FALSE)

----------------------------------------------------------------------------
(* Step 1: the headline items *)

\* levels.indexOf(level), zero-based, -1 when absent.
IndexOf(seq, x) ==
    IF \E i \in 1..Len(seq) : seq[i] = x
    THEN (CHOOSE i \in 1..Len(seq) : seq[i] = x /\ \A j \in 1..(i - 1) : seq[j] # x) - 1
    ELSE -1

\* The membership test with > in place of >=: the first included level is lost.
IncludedOffByOne(levels, level) == IndexOf(levels, level) > 0

Included(levels, level) == IndexOf(levels, level) >= 0

\* parseInt(token.tag.toLowerCase().replace('h', ''), 10) for the tags h1..h9.
Digits == "123456789"
TagLevel(tag) ==
    LET d == SubSeq(tag, 2, Len(tag))
    IN  CHOOSE l \in 1..Len(Digits) : SubSeq(Digits, l, l) = d

\* token.attrs is a sequence of <<key, value>> pairs, <<>> also standing for a
\* null attrs; the value of the first pair whose key is "id", else null.
findExistingIdAttr(token) ==
    IF Len(token.attrs) > 0 /\ \E i \in 1..Len(token.attrs) : token.attrs[i][1] = "id"
    THEN LET i == CHOOSE i \in 1..Len(token.attrs) :
                    /\ token.attrs[i][1] = "id"
                    /\ \A j \in 1..(i - 1) : token.attrs[j][1] # "id"
         IN  token.attrs[i][2]
    ELSE Null

\* The contents of the text and code_inline children, concatenated in order.
RECURSIVE TextContent(_)
TextContent(children) ==
    IF children = <<>> THEN ""
    ELSE (IF Head(children).type \in {"text", "code_inline"} THEN Head(children).content ELSE "")
         \o TextContent(Tail(children))

OnHeadingOpen(st, token, opts) ==
    LET id == findExistingIdAttr(token)
        level == TagLevel(token.tag)
    IN  IF Included(opts.includeLevel, level)
        THEN [st EXCEPT !.currentHeading =
                 << [level |-> level, text |-> Null,
                     anchor |-> IF Truthy(id) THEN id ELSE Null] >>]
        ELSE st

OnInline(st, token, opts) ==
    LET textContent == TextContent(token.children)
        open == st.currentHeading[1]
    IN  [st EXCEPT !.currentHeading =
            << [open EXCEPT !.text = textContent,
                            !.anchor = IF ~Truthy(open.anchor)
                                       THEN slugify(textContent) ELSE open.anchor] >>]

OnHeadingClose(st) ==
    [st EXCEPT !.headings = IF st.currentHeading # <<>>
                            THEN Append(@, st.currentHeading[1]) ELSE @,
               !.currentHeading = <<>>]

\* The body of tokens.forEach for one token.
ExtractStep(st, token, opts) ==
    IF token.type = "heading_open" THEN OnHeadingOpen(st, token, opts)
    ELSE IF st.currentHeading # <<>> /\ token.type = "inline" THEN OnInline(st, token, opts)
    ELSE IF token.type = "heading_close" THEN OnHeadingClose(st)
    ELSE st

RECURSIVE ExtractFold(_, _, _)
ExtractFold(st, toks, opts) ==
    IF toks = <<>> THEN st
    ELSE ExtractFold(ExtractStep(st, Head(toks), opts), Tail(toks), opts)

findHeadlineElements(levels, toks, opts) ==
    ExtractFold([headings |-> <<>>, currentHeading |-> <<>>], toks,
                [opts EXCEPT !.includeLevel = levels]).headings

----------------------------------------------------------------------------
(* The inline rule *)

\* The string s lower-cased, as the i flag of the marker pattern compares.
RECURSIVE LowerStr(_)
LowerStr(s) == IF s = "" THEN "" ELSE LowerChar(SubSeq(s, 1, 1)) \o LowerStr(SubSeq(s, 2, Len(s)))

Marker == "[[toc]]"

\* /^\[\[toc\]\]/im at the one-based place i of s: with the m flag, ^ holds at
\* the start of s and after every line break.
MarkerPatternAt(s, i) ==
    /\ i = 1 \/ SubSeq(s, i - 1, i - 1) = "\n"
    /\ i + Len(Marker) - 1 <= Len(s)
    /\ LowerStr(SubSeq(s, i, i + Len(Marker) - 1)) = Marker

\* tocRegexp.exec(s) finds a match: exec searches the whole of s.
RegexpExec(s) == \E i \in 1..Len(s) : MarkerPatternAt(s, i)

\* state.src.substr(state.pos), state.pos being zero-based.
Substr(s, from) == SubSeq(s, from + 1, Len(s))

\* state.src.indexOf('\n', from), zero-based, -1 when there is none.
IndexOfNewline(s, from) ==
    IF \E i \in (from + 1)..Len(s) : SubSeq(s, i, i) = "\n"
    THEN (CHOOSE i \in (from + 1)..Len(s) :
              /\ SubSeq(s, i, i) = "\n"
              /\ \A j \in (from + 1)..(i - 1) : SubSeq(s, j, j) # "\n") - 1
    ELSE -1

\* state.push(type, tag, nesting); at is state.pos when it was called.
PushToken(st, type, tag, nesting) ==
    [st EXCEPT !.tokens = Append(@, [type |-> type, tag |-> tag, nesting |-> nesting,
                                      at |-> st.pos])]

\* toc(state, silent): the value returned and the state left behind.
toc(st, silent) ==
    IF SubSeq(st.src, st.pos + 1, st.pos + 1) # "[" THEN [ret |-> False, state |-> st]
    ELSE IF silent THEN [ret |-> False, state |-> st]
    ELSE IF ~RegexpExec(Substr(st.src, st.pos)) THEN [ret |-> False, state |-> st]
    ELSE LET t == PushToken(PushToken(PushToken(st, "toc_open", "toc", 1),
                                      "toc_body", "", 0), "toc_close", "toc", -1)
             newline == IndexOfNewline(st.src, st.pos)
         IN  [ret |-> True,
              state |-> [t EXCEPT !.pos = IF newline # -1 THEN newline
                                          ELSE st.pos + st.posMax + 1]]

----------------------------------------------------------------------------
(* Step 2: the nested tree *)

RECURSIVE MathMin(_)
MathMin(levels) ==
    IF levels = <<>> THEN Infinity
    ELSE Min2(Head(levels), MathMin(Tail(levels)))

getMinLevel(items) == MathMin([i \in 1..Len(items) |-> items[i].level])

\* addListItem with the new item put first among rootNode.children (unshift).
addListItemUnshift(nodes, level, text, anchor, rootNode) ==
    Append([nodes EXCEPT ![rootNode].children = <<Len(nodes) + 1>> \o @],
           [level |-> level, text |-> text, anchor |-> anchor,
            children |-> <<>>, parent |-> rootNode])

\* addListItem creates the item and pushes it onto rootNode.children; the new
\* item's index is Len(nodes) + 1.
addListItem(nodes, level, text, anchor, rootNode) ==
    Append([nodes EXCEPT ![rootNode].children = Append(@, Len(nodes) + 1)],
           [level |-> level, text |-> text, anchor |-> anchor,
            children |-> <<>>, parent |-> rootNode])

\* The state of flatHeadlineItemsToNestedTree before the first headline.
\* carrier records, per headline processed, the node that received its text and
\* anchor; threw records a TypeError (a property read of null).
TreeInit(items) ==
    [nodes |-> << [level |-> Minus1(getMinLevel(items)), anchor |-> Null,
                   text |-> Null, children |-> <<>>, parent |-> 0] >>,
     currentRootNode |-> 1,
     prevListItem |-> 1,
     carrier |-> <<>>,
     threw |-> FALSE]

\* Array.from({ length: n }).forEach: n times descend one step.
RECURSIVE Descend(_, _, _)
Descend(st, level, n) ==
    IF n <= 0 THEN st
    ELSE Descend([st EXCEPT
                    !.currentRootNode = st.prevListItem,
                    !.nodes = addListItem(st.nodes, level, Null, Null, st.prevListItem),
                    !.prevListItem = Len(st.nodes) + 1],
                 level, n - 1)

\* currentRootNode = currentRootNode.parent, n times; 0 once null is reached.
RECURSIVE Up(_, _, _)
Up(nodes, node, n) ==
    IF n <= 0 \/ node = 0 THEN node
    ELSE Up(nodes, nodes[node].parent, n - 1)

StepIncrease(st, h) ==
    LET d == Descend(st, h.level, h.level - st.nodes[st.prevListItem].level)
    IN  [d EXCEPT !.nodes[d.prevListItem].text = h.text,
                  !.nodes[d.prevListItem].anchor = h.anchor,
                  !.carrier = Append(@, d.prevListItem)]

StepEqual(st, h) ==
    [st EXCEPT !.nodes = addListItem(st.nodes, h.level, h.text, h.anchor, st.currentRootNode),
               !.prevListItem = Len(st.nodes) + 1,
               !.carrier = Append(@, Len(st.nodes) + 1)]

\* The decrease branch walking up one parent only, whatever the level difference.
StepDecreaseOnce(st, h) ==
    LET root == Up(st.nodes, st.currentRootNode, 1)
    IN  IF root = 0
        THEN [st EXCEPT !.currentRootNode = 0, !.threw = TRUE]
        ELSE [st EXCEPT !.currentRootNode = root,
                        !.nodes = addListItem(st.nodes, h.level, h.text, h.anchor, root),
                        !.prevListItem = Len(st.nodes) + 1,
                        !.carrier = Append(@, Len(st.nodes) + 1)]

StepDecrease(st, h) ==
    LET root == Up(st.nodes, st.currentRootNode,
                   st.nodes[st.prevListItem].level - h.level)
    IN  IF root = 0
        THEN [st EXCEPT !.currentRootNode = 0, !.threw = TRUE]
        ELSE [st EXCEPT !.currentRootNode = root,
                        !.nodes = addListItem(st.nodes, h.level, h.text, h.anchor, root),
                        !.prevListItem = Len(st.nodes) + 1,
                        !.carrier = Append(@, Len(st.nodes) + 1)]

\* The body of headlineItems.forEach for one headline.
TreeStep(st, h) ==
    IF st.threw THEN st
    ELSE IF h.level > st.nodes[st.prevListItem].level THEN StepIncrease(st, h)
    ELSE IF h.level = st.nodes[st.prevListItem].level THEN StepEqual(st, h)
    ELSE StepDecrease(st, h)

RECURSIVE TreeFold(_, _)
TreeFold(st, items) ==
    IF items = <<>> THEN st ELSE TreeFold(TreeStep(st, Head(items)), Tail(items))

flatHeadlineItemsToNestedTree(items) == TreeFold(TreeInit(items), items)

----------------------------------------------------------------------------
(* Step 3: the markup *)

\* options.format: the default hands the text to the host's md.renderInline,
\* which is kept as an uninterpreted call.
Format(opts, text, anchor) ==
    IF opts.format = "default" THEN "renderInline(" \o text \o ")"
    ELSE "format(" \o text \o "," \o ToStr(anchor) \o ")"

\* options.transformLink, a configured function of the anchor: the functions of
\* the model prepend a fixed string, which is what names them in the options.
TransformLink(opts, anchor) == opts.transformLink \o ToStr(anchor)

RECURSIVE tocItemToHtml(_, _, _, _)
RECURSIVE ItemsHtml(_, _, _, _)
LiHtml(nodes, child, opts, counter) ==
    LET childItem == nodes[child]
        anchor == IF Truthy(opts.transformLink)
                  THEN TransformLink(opts, childItem.anchor)
                  ELSE childItem.anchor
        text == IF Truthy(childItem.text)
                THEN Format(opts, childItem.text, anchor)
                ELSE Null
    IN  "<li>"
        \o (IF Truthy(anchor)
            THEN "<a href=\"#" \o ToStr(anchor) \o "\">" \o ToStr(text) \o "</a>"
            ELSE IF Truthy(text) THEN text ELSE "")
        \o (IF Len(childItem.children) > 0
            THEN tocItemToHtml(nodes, child, opts, counter + 1)
            ELSE "")
        \o "</li>"

\* tocItem.children.map(...).join('')
ItemsHtml(nodes, children, opts, counter) ==
    IF children = <<>> THEN ""
    ELSE LiHtml(nodes, Head(children), opts, counter)
         \o ItemsHtml(nodes, Tail(children), opts, counter)

\* tocItemToHtml rendering an item for tocItem itself ahead of its children.
tocItemToHtmlOwnItem(nodes, tocItem, opts, counter) ==
    LET extraAttributes == IF counter = 0 /\ opts.listAttrs # ""
                           THEN " " \o opts.listAttrs ELSE ""
    IN  "<" \o opts.listType \o extraAttributes \o ">"
        \o "<li>" \o (IF Truthy(nodes[tocItem].text) THEN nodes[tocItem].text ELSE "") \o "</li>"
        \o ItemsHtml(nodes, nodes[tocItem].children, opts, counter)
        \o "</" \o opts.listType \o ">"

tocItemToHtml(nodes, tocItem, opts, counter) ==
    LET extraAttributes == IF counter = 0 /\ opts.listAttrs # ""
                           THEN " " \o opts.listAttrs ELSE ""
    IN  "<" \o opts.listType \o extraAttributes \o ">"
        \o ItemsHtml(nodes, nodes[tocItem].children, opts, counter)
        \o "</" \o opts.listType \o ">"

defaults ==
    [includeLevel |-> <<1, 2>>, listType |-> "ul", format |-> "default",
     forceFullToc |-> False, transformLink |-> Undefined, listAttrs |-> ""]

\* Object.assign({}, defaults, o): the keys of o override the defaults.
AssignOptions(o) == [k \in DOMAIN defaults |-> IF k \in DOMAIN o THEN o[k] ELSE defaults[k]]

\* The flag test as a comparison with true: a truthy non-boolean passes.
ForceFullTocIsTrue(opts) == opts.forceFullToc = True

\* if (options.forceFullToc)
ForceFullTocSet(opts) == Truthy(opts.forceFullToc)

\* md.renderer.rules.toc_body with gstate.tokens = gtokens: whether it threw,
\* the markup it returned, and the headline items and tree it built on the way.
toc_body(opts, gtokens) ==
    IF ForceFullTocSet(opts)
    THEN [done |-> TRUE, threw |-> TRUE, html |-> Undefined,
          headlineItems |-> <<>>, nodes |-> <<>>]
    ELSE LET items == findHeadlineElements(opts.includeLevel, gtokens, opts)
             toctree == flatHeadlineItemsToNestedTree(items)
         IN  [done |-> TRUE, threw |-> toctree.threw,
              html |-> tocItemToHtml(toctree.nodes, 1, opts, 0),
              headlineItems |-> items,
              nodes |-> toctree.nodes]

----------------------------------------------------------------------------
(* The headline lists and options the tree and the markup are built for *)

Levels == 1..MaxLevel

\* The k-th headline of a list: "plain" a headline with text and anchor, "bare"
\* one findHeadlineElements left without inline content and id, "image" one
\* whose inline content holds no text or code_inline child but has an id.
Letter(k) == SubSeq("ABCDEFGH", k, k)
ItemOf(k, level, kind) ==
    CASE kind = "plain" -> [level |-> level, text |-> Letter(k),
                            anchor |-> "id-" \o Letter(k)]
      [] kind = "bare"  -> [level |-> level, text |-> Null, anchor |-> Null]
      [] kind = "image" -> [level |-> level, text |-> "", anchor |-> "id-" \o Letter(k)]

Kinds == {"bare", "image"}

\* Every level sequence of up to MaxItems headlines; at most one headline of a
\* list (the one at position special) is not a plain one.
HeadlineLists ==
    UNION { { [k \in 1..n |-> ItemOf(k, ls[k], IF k = special THEN kind ELSE "plain")] :
                ls \in [1..n -> Levels], special \in 0..n, kind \in Kinds } :
            n \in 0..MaxItems }

RenderOptions ==
    { defaults,
      [defaults EXCEPT !.listType = "ol", !.listAttrs = "class=\"t\""],
      [defaults EXCEPT !.transformLink = "page-", !.format = "custom"] }

----------------------------------------------------------------------------
(* toc_body, lines 268-269: the tree is built headline by headline, then rendered *)

InitTree ==
    /\ headlineItems \in HeadlineLists
    /\ tree = TreeInit(headlineItems)
    /\ idx = 1
    /\ pc = "build"
    /\ options = defaults
    /\ html = Null
    /\ tokens = <<>> /\ currentHeading = <<>> /\ headings = <<>>
    /\ src = "" /\ pos = 0 /\ pushed = <<>> /\ ret = Undefined
    /\ gstate = 0 /\ parsed = <<>> /\ rendered = <<>>

Building == pc = "build" /\ idx <= Len(headlineItems)
PrevLevel == tree.nodes[tree.prevListItem].level

Increase ==
    /\ Building
    /\ headlineItems[idx].level > PrevLevel
    /\ tree' = TreeStep(tree, headlineItems[idx])
    /\ idx' = idx + 1
    /\ UNCHANGED <<pc, options, headlineItems, html, extractVars, scanVars, engineVars>>

Equal ==
    /\ Building
    /\ headlineItems[idx].level = PrevLevel
    /\ tree' = TreeStep(tree, headlineItems[idx])
    /\ idx' = idx + 1
    /\ UNCHANGED <<pc, options, headlineItems, html, extractVars, scanVars, engineVars>>

Decrease ==
    /\ Building
    /\ headlineItems[idx].level < PrevLevel
    /\ tree' = TreeStep(tree, headlineItems[idx])
    /\ idx' = idx + 1
    /\ UNCHANGED <<pc, options, headlineItems, html, extractVars, scanVars, engineVars>>

Render ==
    /\ pc = "build"
    /\ idx > Len(headlineItems)
    /\ \E o \in RenderOptions :
          /\ options' = o
          /\ html' = tocItemToHtml(tree.nodes, 1, o, 0)
    /\ pc' = "done"
    /\ UNCHANGED <<headlineItems, tree, idx, extractVars, scanVars, engineVars>>

NextTree == Increase \/ Equal \/ Decrease \/ Render

SpecTree == InitTree /\ [][NextTree]_vars

----------------------------------------------------------------------------
(* Properties of the tree *)

RECURSIVE Preorder(_, _)
RECURSIVE PreorderAll(_, _)
\* The nodes of the subtree of n, n first, children in their stored order.
Preorder(nodes, n) == <<n>> \o PreorderAll(nodes, nodes[n].children)
PreorderAll(nodes, cs) ==
    IF cs = <<>> THEN <<>>
    ELSE Preorder(nodes, Head(cs)) \o PreorderAll(nodes, Tail(cs))

RECURSIVE Depth(_, _)
\* The number of parent links from n up to the root.
Depth(nodes, n) == IF nodes[n].parent = 0 THEN 0 ELSE 1 + Depth(nodes, nodes[n].parent)

Carries(n) == \E k \in 1..Len(tree.carrier) : tree.carrier[k] = n
Synthetic(n) == n # 1 /\ ~Carries(n)
LevelsOf(items) == [k \in 1..Len(items) |-> items[k].level]
AllPlain(items) == \A k \in 1..Len(items) : items[k] = ItemOf(k, items[k].level, "plain")
Built == idx > Len(headlineItems)

\* C1: at every point of the pass, the pre-order traversal of the tree, kept to
\* the nodes that received a headline's text and anchor, is the sequence of the
\* headlines processed so far: each of them once, in input order, with its
\* level, text and anchor; once the pass is over, that is the whole input.
C1_PreorderIsInput ==
    /\ Len(tree.carrier) = idx - 1
    /\ SelectSeq(Preorder(tree.nodes, 1), Carries) = tree.carrier
    /\ \A j, k \in 1..Len(tree.carrier) : tree.carrier[j] = tree.carrier[k] => j = k
    /\ \A k \in 1..Len(tree.carrier) :
          LET n == tree.nodes[tree.carrier[k]]
          IN  [level |-> n.level, text |-> n.text, anchor |-> n.anchor] = headlineItems[k]

\* A finished tree of four headlines that needed a synthetic node and a walk up.
C1_Witness ==
    /\ Built
    /\ Len(headlineItems) = 4
    /\ \E n \in 1..Len(tree.nodes) : Synthetic(n)
    /\ \E k \in 2..4 : headlineItems[k].level < headlineItems[k - 1].level

\* C2: after each headline is processed, the node carrying it lies at depth
\* (its level - the minimum level of the list + 1) below the root, and no
\* walk up ever leaves the tree; levels 1,2,2,1 give A (with B, C) and D under
\* the root, and levels 1,3,1 give A and C under the root with B below exactly
\* one synthetic node under A.
C2_DepthIsRelativeLevel ==
    /\ ~tree.threw
    /\ \A k \in 1..Len(tree.carrier) :
          Depth(tree.nodes, tree.carrier[k])
            = headlineItems[k].level - getMinLevel(headlineItems) + 1
    /\ (Built /\ LevelsOf(headlineItems) = <<1, 2, 2, 1>> /\ AllPlain(headlineItems)) =>
          LET c == tree.carrier
              n == tree.nodes
          IN  /\ Len(n) = 5
              /\ n[1].children = <<c[1], c[4]>>
              /\ n[c[1]].children = <<c[2], c[3]>>
              /\ n[c[2]].children = <<>> /\ n[c[3]].children = <<>>
              /\ n[c[4]].children = <<>>
              /\ <<n[c[1]].text, n[c[2]].text, n[c[3]].text, n[c[4]].text>>
                   = <<"A", "B", "C", "D">>
    /\ (Built /\ LevelsOf(headlineItems) = <<1, 3, 1>> /\ AllPlain(headlineItems)) =>
          LET c == tree.carrier
              n == tree.nodes
          IN  /\ Len(n) = 5
              /\ n[1].children = <<c[1], c[3]>>
              /\ Len(n[c[1]].children) = 1
              /\ LET s == n[c[1]].children[1]
                 IN  /\ Synthetic(s)
                     /\ n[s].text = Null /\ n[s].anchor = Null
                     /\ n[s].children = <<c[2]>>
              /\ n[c[2]].children = <<>> /\ n[c[3]].children = <<>>
              /\ <<n[c[1]].text, n[c[2]].text, n[c[3]].text>> = <<"A", "B", "C">>

\* The finished tree of the headlines A, B, C at levels 1, 3, 1.
C2_Witness ==
    Built /\ LevelsOf(headlineItems) = <<1, 3, 1>> /\ AllPlain(headlineItems)

\* C3: each child node's level is strictly greater than its parent's level, a
\* synthetic node being created at the next level below its parent.
C3_ChildLevelGreater ==
    \A n \in 2..Len(tree.nodes) :
        /\ tree.nodes[n].level > tree.nodes[tree.nodes[n].parent].level
        /\ Synthetic(n) => tree.nodes[n].level = tree.nodes[tree.nodes[n].parent].level + 1

----------------------------------------------------------------------------
(* Properties of the markup *)

RECURSIVE ClaimedList(_, _, _, _)
RECURSIVE ClaimedItems(_, _, _, _)
\* The item the description of the renderer asks for: the link transform only
\* for a node with an anchor, the format function for every non-null text, a
\* link exactly when the node has an anchor.
ClaimedLi(nodes, child, opts, counter) ==
    LET childItem == nodes[child]
        hasAnchor == childItem.anchor # Null
        anchor == IF hasAnchor /\ Truthy(opts.transformLink)
                  THEN TransformLink(opts, childItem.anchor)
                  ELSE childItem.anchor
        text == IF childItem.text # Null
                THEN Format(opts, childItem.text, anchor)
                ELSE Null
    IN  "<li>"
        \o (IF hasAnchor
            THEN "<a href=\"#" \o ToStr(anchor) \o "\">" \o ToStr(text) \o "</a>"
            ELSE IF text # Null THEN text ELSE "")
        \o (IF Len(childItem.children) > 0
            THEN ClaimedList(nodes, child, opts, counter + 1)
            ELSE "")
        \o "</li>"

ClaimedItems(nodes, children, opts, counter) ==
    IF children = <<>> THEN ""
    ELSE ClaimedLi(nodes, Head(children), opts, counter)
         \o ClaimedItems(nodes, Tail(children), opts, counter)

ClaimedList(nodes, tocItem, opts, counter) ==
    LET extraAttributes == IF counter = 0 /\ opts.listAttrs # ""
                           THEN " " \o opts.listAttrs ELSE ""
    IN  "<" \o opts.listType \o extraAttributes \o ">"
        \o ClaimedItems(nodes, nodes[tocItem].children, opts, counter)
        \o "</" \o opts.listType \o ">"

\* C10: the markup of every node is as described: the link transform is
\* applied only to a node that has an anchor, a node with an anchor is a link
\* around the formatted text whenever the text is non-null (empty included), a
\* node without an anchor carries no link, so a synthetic node is an unlabeled
\* item without a link.
C10_MarkupAsDescribed ==
    pc = "done" => html = ClaimedList(tree.nodes, 1, options, 0)

----------------------------------------------------------------------------
(* The token streams findHeadlineElements is run on *)

Tok(type, tag, attrs, children) ==
    [type |-> type, tag |-> tag, attrs |-> attrs, children |-> children]
Child(type, content) == [type |-> type, content |-> content]

\* What the host hands over for one heading: heading_open, inline, heading_close.
HeadingBlock(level, attrs, children) ==
    LET tag == "h" \o SubSeq(Digits, level, level)
    IN  << Tok("heading_open", tag, attrs, <<>>),
           Tok("inline", "", <<>>, children),
           Tok("heading_close", tag, <<>>, <<>>) >>

ParagraphBlock ==
    << Tok("paragraph_open", "p", <<>>, <<>>),
       Tok("inline", "", <<>>, << Child("text", "body") >>),
       Tok("paragraph_close", "p", <<>>, <<>>) >>

RuleBlock == << Tok("hr", "hr", <<>>, <<>>) >>

\* The headings of the model: without id, with the id "custom-id", with an
\* empty id next to another attribute, and one whose inline content mixes
\* text, code and emphasis.
HeadingVariants ==
    { [attrs |-> <<>>, children |-> << Child("text", "Hello World") >>],
      [attrs |-> << <<"id", "custom-id">> >>, children |-> << Child("text", "Hello World") >>],
      [attrs |-> << <<"class", "x">>, <<"id", "">> >>,
       children |-> << Child("text", "Q&A ") >>],
      [attrs |-> <<>>,
       children |-> << Child("text", "Use "), Child("code_inline", "x"),
                       Child("em_open", ""), Child("text", " Now"), Child("em_close", "") >>] }

Blocks ==
    { HeadingBlock(l, v.attrs, v.children) : l \in Levels, v \in HeadingVariants }
        \cup {ParagraphBlock, RuleBlock}

RECURSIVE Flatten(_)
Flatten(bs) == IF bs = <<>> THEN <<>> ELSE Head(bs) \o Flatten(Tail(bs))

TokenStreams == UNION { { Flatten(bs) : bs \in [1..n -> Blocks] } : n \in 0..MaxBlocks }

IncludeLevels == { <<1, 2>>, <<2, 3>> }

----------------------------------------------------------------------------
(* findHeadlineElements, token by token *)

InitExtract ==
    /\ tokens \in TokenStreams
    /\ \E levels \in IncludeLevels : options = [defaults EXCEPT !.includeLevel = levels]
    /\ currentHeading = <<>>
    /\ headings = <<>>
    /\ idx = 1
    /\ pc = "scan"
    /\ headlineItems = <<>> /\ tree = TreeInit(<<>>) /\ html = Null
    /\ src = "" /\ pos = 0 /\ pushed = <<>> /\ ret = Undefined
    /\ gstate = 0 /\ parsed = <<>> /\ rendered = <<>>

Scanning == pc = "scan" /\ idx <= Len(tokens)

ApplyExtractStep ==
    LET st == ExtractStep([headings |-> headings, currentHeading |-> currentHeading],
                          tokens[idx], options)
    IN  /\ headings' = st.headings
        /\ currentHeading' = st.currentHeading
        /\ idx' = idx + 1
        /\ UNCHANGED <<pc, options, tokens, treeVars, scanVars, engineVars>>

HeadingOpen ==
    /\ Scanning
    /\ tokens[idx].type = "heading_open"
    /\ ApplyExtractStep

InlineContent ==
    /\ Scanning
    /\ tokens[idx].type = "inline"
    /\ currentHeading # <<>>
    /\ ApplyExtractStep

HeadingClose ==
    /\ Scanning
    /\ tokens[idx].type = "heading_close"
    /\ ApplyExtractStep

OtherToken ==
    /\ Scanning
    /\ tokens[idx].type \notin {"heading_open", "heading_close"}
    /\ ~(tokens[idx].type = "inline" /\ currentHeading # <<>>)
    /\ ApplyExtractStep

ReturnHeadings ==
    /\ pc = "scan"
    /\ idx > Len(tokens)
    /\ pc' = "returned"
    /\ UNCHANGED <<options, idx, tokens, currentHeading, headings, treeVars, scanVars, engineVars>>

NextExtract == HeadingOpen \/ InlineContent \/ HeadingClose \/ OtherToken \/ ReturnHeadings

SpecExtract == InitExtract /\ [][NextExtract]_vars

----------------------------------------------------------------------------
(* Properties of the headline items *)

InSet(seq, x) == \E i \in 1..Len(seq) : seq[i] = x
HasIdAttr(token) == \E i \in 1..Len(token.attrs) : token.attrs[i][1] = "id"
IdAttrValue(token) ==
    token.attrs[CHOOSE i \in 1..Len(token.attrs) :
                    token.attrs[i][1] = "id" /\ \A j \in 1..(i - 1) : token.attrs[j][1] # "id"][2]

\* The positions, in document order, of the heading_open tokens among the
\* first n tokens whose level is one of the included levels.
RECURSIVE IncludedOpens(_)
IncludedOpens(n) ==
    IF n = 0 THEN <<>>
    ELSE IF /\ tokens[n].type = "heading_open"
            /\ InSet(options.includeLevel, TagLevel(tokens[n].tag))
         THEN Append(IncludedOpens(n - 1), n)
         ELSE IncludedOpens(n - 1)

\* The included headings whose heading_close has been walked.
ClosedOpens == SelectSeq(IncludedOpens(Len(tokens)), LAMBDA p : p + 2 < idx)

\* C4: the anchor of every descriptor whose heading_open carries an id
\* attribute is that attribute's value, whatever the value, and the slug of
\* the text is the anchor only when there is no id attribute.
C4_IdAttrAlwaysWins ==
    /\ Len(headings) = Len(ClosedOpens)
    /\ \A k \in 1..Len(headings) :
          LET open == tokens[ClosedOpens[k]]
          IN  headings[k].anchor = IF HasIdAttr(open) THEN IdAttrValue(open)
                                   ELSE slugify(headings[k].text)

\* C9: findHeadlineElements returns one descriptor per heading of an included
\* level, in document order, with that heading's level and the text of its own
\* inline token, and none for a heading of an excluded level; at every point of
\* the walk the descriptors are those of the included headings closed so far.
C9_OnePerIncludedHeading ==
    /\ Len(headings) = Len(ClosedOpens)
    /\ \A k \in 1..Len(headings) :
          /\ InSet(options.includeLevel, headings[k].level)
          /\ headings[k].level = TagLevel(tokens[ClosedOpens[k]].tag)
          /\ headings[k].text = TextContent(tokens[ClosedOpens[k] + 1].children)
    /\ pc = "returned" => Len(headings) = Len(IncludedOpens(Len(tokens)))

\* A returned list that kept one heading and dropped an excluded one before it.
C9_Witness ==
    /\ pc = "returned"
    /\ Len(headings) = 1
    /\ Len(tokens) = 6
    /\ tokens[1].type = "heading_open" /\ tokens[4].type = "heading_open"
    /\ ~InSet(options.includeLevel, TagLevel(tokens[1].tag))

----------------------------------------------------------------------------
(* The host's inline scan, calling toc at the positions it reaches *)

ScanLines == {"[[toc]]", "[x]", "text", "a [[TOC]]"}

RECURSIVE JoinLines(_)
JoinLines(ls) ==
    IF Len(ls) = 1 THEN ls[1] ELSE ls[1] \o "\n" \o JoinLines(Tail(ls))

Sources == UNION { { JoinLines(ls) : ls \in [1..n -> ScanLines] } : n \in 1..MaxLines }

InitScan ==
    /\ src \in Sources
    /\ pos = 0
    /\ pushed = <<>>
    /\ ret = Undefined
    /\ pc = "inline"
    /\ options = defaults
    /\ idx = 1
    /\ headlineItems = <<>> /\ tree = TreeInit(<<>>) /\ html = Null
    /\ tokens = <<>> /\ currentHeading = <<>> /\ headings = <<>>
    /\ gstate = 0 /\ parsed = <<>> /\ rendered = <<>>

ScanState == [src |-> src, pos |-> pos, posMax |-> Len(src), tokens |-> pushed]
InScan == pc = "inline" /\ pos < Len(src)

\* The rule consumes a marker: the host goes on from the new state.pos.
TocMatch ==
    /\ InScan
    /\ LET r == toc(ScanState, FALSE)
       IN  /\ r.ret = True
           /\ ret' = r.ret
           /\ pos' = r.state.pos
           /\ pushed' = r.state.tokens
    /\ UNCHANGED <<pc, options, idx, src, treeVars, extractVars, engineVars>>

\* The rule declines; another rule of the host, or its fallback, consumes the
\* character at state.pos.
TocDecline ==
    /\ InScan
    /\ LET r == toc(ScanState, FALSE)
       IN  /\ r.ret = False
           /\ ret' = r.ret
           /\ pos' = r.state.pos + 1
           /\ pushed' = r.state.tokens
    /\ UNCHANGED <<pc, options, idx, src, treeVars, extractVars, engineVars>>

\* A validation probe of the host (silent = true) at the current position.
TocSilent ==
    /\ InScan
    /\ LET r == toc(ScanState, TRUE)
       IN  /\ ret' = r.ret
           /\ pos' = r.state.pos
           /\ pushed' = r.state.tokens
    /\ UNCHANGED <<pc, options, idx, src, treeVars, extractVars, engineVars>>

ScanEnd ==
    /\ pc = "inline"
    /\ pos >= Len(src)
    /\ pc' = "scanned"
    /\ UNCHANGED <<options, idx, treeVars, extractVars, scanVars, engineVars>>

NextScan == TocMatch \/ TocDecline \/ TocSilent \/ ScanEnd

SpecScan == InitScan /\ [][NextScan]_vars

----------------------------------------------------------------------------
(* Properties of the inline rule *)

\* The content at the zero-based position p begins with the marker.
BeginsWithMarker(p) ==
    /\ p + Len(Marker) <= Len(src)
    /\ LowerStr(SubSeq(src, p + 1, p + Len(Marker))) = Marker

\* The zero-based positions of the markers that begin a line.
LineMarkers ==
    { p \in 0..Len(src) : BeginsWithMarker(p) /\ (p = 0 \/ SubSeq(src, p, p) = "\n") }

EndOfLineFrom(p) == IF IndexOfNewline(src, p) = -1 THEN Len(src) ELSE IndexOfNewline(src, p)

\* C5: over a non-silent scan every triple the rule emits is a toc_open,
\* toc_body, toc_close emitted at a position whose content begins with the
\* marker, no position gets two triples, after a match the scan resumes at the
\* end of the matched line (or past the content), and when the scan is over
\* every marker that begins a line has got its triple.
C5_OneTriplePerMarker ==
    /\ Len(pushed) % 3 = 0
    /\ \A k \in 1..Len(pushed) :
          /\ pushed[k].type = << "toc_open", "toc_body", "toc_close" >>[((k - 1) % 3) + 1]
          /\ BeginsWithMarker(pushed[k].at)
          /\ \A j \in 1..Len(pushed) :
                (pushed[j].at = pushed[k].at /\ pushed[j].type = pushed[k].type) => j = k
    /\ (ret = True /\ pushed # <<>>) =>
          pos >= EndOfLineFrom(pushed[Len(pushed)].at)
    /\ pc = "scanned" => \A p \in LineMarkers : \E k \in 1..Len(pushed) : pushed[k].at = p

----------------------------------------------------------------------------
(* One configured plugin instance handling several documents                *)
(*                                                                          *)
(* The host parses a document (its core chain ends with grab_state) and     *)
(* renders a document's tokens (its toc_body placeholder calls the renderer *)
(* rule); parse and render are separate entry points of the host, so the    *)
(* steps of different documents may come in any order.                      *)

Docs == 1..NumDocs

\* The token stream of each document; every document holds one [[toc]] marker.
SampleDocs ==
    << Flatten(<< HeadingBlock(1, <<>>, << Child("text", "Hello World") >>),
                  HeadingBlock(2, << <<"id", "custom-id">> >>, << Child("text", "Setup") >>) >>),
       Flatten(<< ParagraphBlock,
                  HeadingBlock(3, <<>>, << Child("text", "Deep") >>) >>),
       Flatten(<< HeadingBlock(2, <<>>, << Child("text", "Usage") >>),
                  HeadingBlock(3, <<>>, << Child("text", "Deep") >>) >>),
       Flatten(<< ParagraphBlock >>) >>

DocTokens(d) == SampleDocs[((d - 1) % Len(SampleDocs)) + 1]

\* The options object o the plugin is configured with.
UserOptions ==
    { <<>>,
      [forceFullToc |-> True],
      [forceFullToc |-> "yes", listType |-> "ol"],
      [forceFullToc |-> ""],
      [forceFullToc |-> Undefined, includeLevel |-> <<2, 3>>],
      [forceFullToc |-> False, listAttrs |-> "class=\"t\""],
      [includeLevel |-> <<3>>, transformLink |-> "page-"] }

NotRendered ==
    [done |-> FALSE, threw |-> FALSE, html |-> Undefined,
     headlineItems |-> <<>>, nodes |-> <<>>]

InitEngine ==
    /\ \E o \in UserOptions : options = AssignOptions(o)
    /\ gstate = 0
    /\ parsed = [d \in Docs |-> FALSE]
    /\ rendered = [d \in Docs |-> NotRendered]
    /\ pc = "engine"
    /\ idx = 1
    /\ headlineItems = <<>> /\ tree = TreeInit(<<>>) /\ html = Null
    /\ tokens = <<>> /\ currentHeading = <<>> /\ headings = <<>>
    /\ src = "" /\ pos = 0 /\ pushed = <<>> /\ ret = Undefined

\* md.parse of document d: the core rule grab_state stores its state.
GrabState(d) ==
    /\ pc = "engine"
    /\ gstate' = d
    /\ parsed' = [parsed EXCEPT ![d] = TRUE]
    /\ UNCHANGED <<pc, options, idx, rendered, treeVars, extractVars, scanVars>>

\* md.renderer.render of document d's tokens reaches its toc_body token.
RenderBody(d) ==
    /\ pc = "engine"
    /\ parsed[d]
    /\ rendered' = [rendered EXCEPT ![d] = toc_body(options, DocTokens(gstate))]
    /\ UNCHANGED <<pc, options, idx, gstate, parsed, treeVars, extractVars, scanVars>>

NextEngine == \E d \in Docs : GrabState(d) \/ RenderBody(d)

SpecEngine == InitEngine /\ [][NextEngine]_vars

----------------------------------------------------------------------------
(* Properties of the plugin instance *)

\* C6: whatever the order of the parse and render steps of the documents, the
\* outline put at a document's body placeholder is the one built from that
\* document's own token stream.
C6_OutlineOfOwnDocument ==
    \A d \in Docs :
        (rendered[d].done /\ ~rendered[d].threw) =>
            rendered[d].html = toc_body(options, DocTokens(d)).html

TruthyFlags == {True, "yes"}

\* C7: with the removed forceFullToc flag configured truthy, every toc_body
\* step throws and returns no markup; with the flag absent or falsy, none does.
C7_RemovedFlagThrows ==
    \A d \in Docs :
        rendered[d].done =>
            IF options.forceFullToc \in TruthyFlags
            THEN rendered[d].threw /\ rendered[d].html = Undefined
            ELSE ~rendered[d].threw

\* A body placeholder rendered under the truthy, non-boolean flag "yes".
C7_Witness ==
    \E d \in Docs : rendered[d].done /\ rendered[d].threw /\ options.forceFullToc = "yes"

\* C8: when findHeadlineElements finds no headline of an included level, the
\* tree is a root without children and toc_body returns, without throwing,
\* the empty list: the list element with no item in it.
C8_EmptyOutline ==
    \A d \in Docs :
        (rendered[d].done /\ options.forceFullToc \notin TruthyFlags
           /\ rendered[d].headlineItems = <<>>) =>
            /\ ~rendered[d].threw
            /\ Len(rendered[d].nodes) = 1
            /\ rendered[d].nodes[1].children = <<>>
            /\ rendered[d].html =
                 "<" \o options.listType
                     \o (IF options.listAttrs # "" THEN " " \o options.listAttrs ELSE "")
                     \o "></" \o options.listType \o ">"

\* The body placeholder of document 2, whose only heading is of a level the
\* default options exclude, has been rendered from its own tokens.
C8_Witness ==
    /\ options.includeLevel = <<1, 2>>
    /\ gstate = 2
    /\ rendered[2].done /\ ~rendered[2].threw
    /\ rendered[2].headlineItems = <<>>
    /\ rendered[1] = NotRendered

====
